---- MODULE Spec2Model ----
(***************************************************************************)
(* Semantic indexing and retrieval of the arXiv chatbot:                    *)
(*   data_processor.py     stores article rows in the SQLite database,      *)
(*   semantic_indexer.py   builds and persists the FAISS index,             *)
(*   chatbot_interface.py  loads the index and answers queries.             *)
(*                                                                          *)
(* Text is a sequence of tokens (words and the blank " ").  Numbers are     *)
(* fixed point: a vector component c stands for c / Scale and a score s     *)
(* for s / (Scale * Scale), so that 1.0 is Scale * Scale.                   *)
(***************************************************************************)
EXTENDS Integers, Sequences, FiniteSets, TLC

VARIABLES
    articles,   \* rows of the table articles of the database
    seq,        \* AUTOINCREMENT counter of the table articles
    authors,    \* rows of the table authors: preferred_name by id
    article_authors, \* rows of the table article_authors: <<article_id, author_id>>
    imports,    \* number of process_complete_pipeline runs so far
    builds,     \* number of process_complete_indexing runs so far
    disk,       \* the files under data/embeddings and data/indexes
    ix,         \* the SemanticIndexer object of the last indexing run
    cb,         \* the ArxivChatbot object (cached resources of the process)
    out,        \* outcome of the last query handled by the chatbot
    ex          \* the MassiveScopusExtractor and the locals of massive_extraction

vars == <<articles, seq, authors, article_authors, imports, builds, disk, ix, cb, out,
          ex>>

----------------------------------------------------------------------------
(* Bounds of the model. *)

MaxImports == 2     \* store_articles runs
MaxBuilds == 2      \* process_complete_indexing runs
MaxK == 3           \* largest k given to semantic_search directly
MaxQueries == 2     \* length of the list queries of massive_extraction

----------------------------------------------------------------------------
(* Values. *)

Scale == 5
ScoreOne == Scale * Scale
Dim == 2
NoFile == [exists |-> FALSE]
None == [none |-> TRUE]
Null == <<"<NULL>">>
SP == " "

NoFilter == [years |-> {}, authors |-> {}, categories |-> {}]

(* No query has been handled yet. *)
NoQuery == [op |-> "none", query |-> <<>>, k |-> 0, filters |-> NoFilter,
            encoded |-> FALSE, searched |-> FALSE, hits |-> <<>>, found |-> <<>>,
            error |-> "none", results |-> <<>>]

Min(a, b) == IF a < b THEN a ELSE b

RECURSIVE ISqrtFrom(_, _)
ISqrtFrom(n, r) == IF (r + 1) * (r + 1) > n THEN r ELSE ISqrtFrom(n, r + 1)
ISqrt(n) == ISqrtFrom(n, 0)

RECURSIVE SumTo(_, _)
SumTo(f, n) == IF n = 0 THEN 0 ELSE f[n] + SumTo(f, n - 1)

(* The sequence <<f[1], ..., f[n]>>. *)
RECURSIVE TupleOf(_, _)
TupleOf(f, n) == IF n = 0 THEN <<>> ELSE Append(TupleOf(f, n - 1), f[n])

Dot(a, b) == SumTo([i \in 1..Dim |-> a[i] * b[i]], Dim)

Vec(x, y) == TupleOf([i \in 1..Dim |-> IF i = 1 THEN x ELSE IF i = 2 THEN y ELSE 0], Dim)

VecAdd(a, b) == TupleOf([i \in 1..Dim |-> a[i] + b[i]], Dim)

----------------------------------------------------------------------------
(* The cleaned data frames process_complete_pipeline can be given: the toy   *)
(* corpus, the five-year corpus, and a second download of article "A".      *)

Art(aid, t, a, c, y, au) ==
    [arxiv_id |-> aid, title |-> t, abstract |-> a, categories |-> c,
     year |-> y, authors |-> au]

ToyFile ==
    << Art("A", <<"ai">>, <<>>, <<>>, 2020, << <<"ann">> >>),
       Art("B", <<"bio">>, <<>>, <<"cs">>, 2021, << <<"bob">>, <<SP, "ann", SP>> >>),
       Art("C", <<>>, <<>>, <<>>, 2021, << >>) >>

FiveFile ==
    << Art("Y1", <<"ai">>, <<>>, <<"cs">>, 2020, << <<"ann">> >>),
       Art("Y2", <<"ai">>, <<"bio">>, <<"cs">>, 2021, << <<"bob">> >>),
       Art("Y3", <<"bio">>, <<>>, <<>>, 2020, << <<"ann">>, <<"bob">> >>),
       Art("Y4", <<"neg">>, <<>>, <<>>, 2022, << <<SP>> >>),
       Art("Y5", <<"ai">>, <<"bio">>, <<"cs">>, 2021, << <<"bob">> >>) >>

UpdFile ==
    << Art("A", <<"ai">>, <<"bio">>, <<"cs">>, 2021, << <<"ann">> >>) >>

JsonFiles == {ToyFile, FiveFile, UpdFile}

FiveYears == <<2020, 2021, 2020, 2022, 2021>>

(* The batch programs (steps 2 and 3 of the project) run before the server  *)
(* process is started.  The server works on what it loaded at its start     *)
(* (st.cache_resource, st.cache_data): a later batch run cannot reach it.   *)
BatchPhase == cb.state = "down"

----------------------------------------------------------------------------
(* data_processor.py *)

(* str.strip() on a token sequence: drop leading and trailing blanks. *)
RECURSIVE LStrip(_)
LStrip(t) == IF t # <<>> /\ Head(t) = SP THEN LStrip(Tail(t)) ELSE t

RECURSIVE RStrip(_)
RStrip(t) ==
    IF t # <<>> /\ t[Len(t)] = SP THEN RStrip(SubSeq(t, 1, Len(t) - 1)) ELSE t

Strip(t) == LStrip(RStrip(t))

(* re.sub(r'\s+', ' ', text): a run of blanks becomes one blank. *)
RECURSIVE Collapse(_)
Collapse(t) ==
    IF Len(t) < 2 THEN t
    ELSE IF t[1] = SP /\ t[2] = SP THEN Collapse(Tail(t))
    ELSE <<t[1]>> \o Collapse(Tail(t))

clean_text(text) == IF text = Null \/ text = <<>> THEN <<>> ELSE Strip(Collapse(text))

Row(id, a) ==
    [id |-> id, arxiv_id |-> a.arxiv_id, title |-> a.title, abstract |-> a.abstract,
     categories |-> a.categories, year |-> a.year]

(* INSERT OR REPLACE of the rows i.. of df: a row whose arxiv_id is stored  *)
(* is deleted, and the new row takes the next AUTOINCREMENT id.             *)
RECURSIVE store_articles(_, _, _)
store_articles(db, df, i) ==
    IF i > Len(df) THEN db
    ELSE store_articles(
            [rows |-> {r \in db.rows : r.arxiv_id # df[i].arxiv_id}
                        \cup {Row(db.seq + 1, df[i])},
             seq |-> db.seq + 1],
            df, i + 1)

(* SELECT id FROM authors WHERE preferred_name = ?, fetchone(): the first   *)
(* row of that name.                                                        *)
AuthorId(au, name) == CHOOSE i \in 1..Len(au) :
    /\ au[i] = name
    /\ \A j \in 1..(i - 1) : au[j] # name

(* The loop over the authors j.. of one article: the table authors has no   *)
(* UNIQUE constraint, so INSERT OR IGNORE always inserts.                   *)
RECURSIVE store_authors_of(_, _, _, _)
store_authors_of(st, article_id, names, j) ==
    IF j > Len(names) THEN st
    ELSE LET author_name == clean_text(names[j]) IN
         IF author_name = <<>> THEN store_authors_of(st, article_id, names, j + 1)
         ELSE LET au == Append(st.authors, author_name)
                  author_id == AuthorId(au, author_name)
              IN store_authors_of(
                    [authors |-> au,
                     links |-> st.links \cup {<<article_id, author_id>>}],
                    article_id, names, j + 1)

RECURSIVE store_authors_and_relations(_, _, _, _)
store_authors_and_relations(st, rows, df, i) ==
    IF i > Len(df) THEN st
    ELSE LET found == {r \in rows : r.arxiv_id = df[i].arxiv_id} IN
         IF found = {} THEN store_authors_and_relations(st, rows, df, i + 1)
         ELSE LET article_id == (CHOOSE r \in found : TRUE).id IN
              store_authors_and_relations(
                  store_authors_of(st, article_id, df[i].authors, 1), rows, df, i + 1)

process_complete_pipeline(df) ==
    /\ BatchPhase
    /\ imports < MaxImports
    /\ LET db == store_articles([rows |-> articles, seq |-> seq], df, 1)
           st == store_authors_and_relations(
                    [authors |-> authors, links |-> article_authors], db.rows, df, 1)
       IN /\ articles' = db.rows
          /\ seq' = db.seq
          /\ authors' = st.authors
          /\ article_authors' = st.links
    /\ imports' = imports + 1
    /\ UNCHANGED <<ex, builds, disk, ix, cb, out>>

----------------------------------------------------------------------------
(* semantic_indexer.py *)

(* SELECT ... FROM articles a ORDER BY a.id *)
RECURSIVE SortById(_)
SortById(rows) ==
    IF rows = {} THEN <<>>
    ELSE LET first == CHOOSE r \in rows : \A q \in rows : r.id <= q.id
         IN <<first>> \o SortById(rows \ {first})

load_articles_from_database == SortById(articles)

(* Variant: pd.notna(x) alone. *)
PopulatedNotNull(x) == x # Null

(* pd.notna(x) and x *)
Populated(x) == x # Null /\ x # <<>>

RECURSIVE Join(_)
Join(parts) ==
    IF parts = <<>> THEN <<>>
    ELSE IF Len(parts) = 1 THEN parts[1]
    ELSE parts[1] \o <<SP>> \o Join(Tail(parts))

prepare_text_for_embedding(row) ==
    LET p1 == IF Populated(row.title) THEN << <<"Title:", SP>> \o row.title >> ELSE <<>>
        p2 == IF Populated(row.abstract)
              THEN << <<"Abstract:", SP>> \o row.abstract >> ELSE <<>>
        p3 == IF Populated(row.categories)
              THEN << <<"Categories:", SP>> \o row.categories >> ELSE <<>>
    IN Join(p1 \o p2 \o p3)

(* The sentence encoder (external): the sum of the vectors of the words of  *)
(* the text; labels, blanks and unknown words carry no weight, so the empty *)
(* text has the zero vector.                                                *)
WordVec(w) ==
    CASE w = "ai" -> Vec(3, 0)
      [] w = "bio" -> Vec(0, 4)
      [] w = "neg" -> Vec(-6, 0)
      [] OTHER -> Vec(0, 0)

RECURSIVE Encode(_)
Encode(text) ==
    IF text = <<>> THEN Vec(0, 0) ELSE VecAdd(WordVec(Head(text)), Encode(Tail(text)))

(* Variant: the vector is stored as the encoder gave it. *)
NormalizeL2Skipped(v) == v

(* faiss.normalize_L2 of one vector: a vector of norm 0 is left as it is. *)
NormalizeL2(v) ==
    LET norm == ISqrt(Dot(v, v))
    IN IF norm = 0 THEN v ELSE TupleOf([i \in 1..Dim |-> (v[i] * Scale) \div norm], Dim)

(* Variant: the empty texts are not given to the encoder. *)
EmbeddingsOfNonEmptyTexts(df) ==
    LET kept == SelectSeq(df, LAMBDA r : prepare_text_for_embedding(r) # <<>>)
    IN TupleOf([i \in 1..Len(kept) |-> Encode(prepare_text_for_embedding(kept[i]))],
               Len(kept))

(* model.encode(texts) of create_embeddings *)
Embeddings(df) ==
    TupleOf([i \in 1..Len(df) |-> Encode(prepare_text_for_embedding(df[i]))], Len(df))

(* IndexFlatIP(dimension) and add(embeddings) of create_faiss_index *)
NewFaissIndex(embeddings) ==
    [d |-> Dim,
     vecs |-> TupleOf([i \in 1..Len(embeddings) |-> NormalizeL2(embeddings[i])],
                      Len(embeddings))]

(* Variant: only the documents with a non-empty text get an id. *)
ArticleIdsWithText(df) ==
    LET kept == SelectSeq(df, LAMBDA r : prepare_text_for_embedding(r) # <<>>)
    IN TupleOf([i \in 1..Len(kept) |-> kept[i].id], Len(kept))

(* df['id'].tolist() *)
ArticleIds(df) == TupleOf([i \in 1..Len(df) |-> df[i].id], Len(df))

(* faiss.write_index: the header count is ntotal *)
FaissFile(index) ==
    [exists |-> TRUE, d |-> index.d, ntotal |-> Len(index.vecs), vecs |-> index.vecs]

(* Variant: the correlation file also records when it was written. *)
MetadataFileWithDate(ids, index) ==
    [exists |-> TRUE, article_ids |-> ids, model_name |-> "all-MiniLM-L6-v2",
     dimension |-> index.d, created |-> builds + 1]

(* The dictionary pickled by create_faiss_index. *)
MetadataFile(ids, index) ==
    [exists |-> TRUE, article_ids |-> ids, model_name |-> "all-MiniLM-L6-v2",
     dimension |-> index.d]

YearsOf(df) == {df[i].year : i \in 1..Len(df)}

Report(df, index, now) ==
    [exists |-> TRUE,
     indexing_date |-> now,
     model_used |-> "all-MiniLM-L6-v2",
     total_articles |-> Len(df),
     embedding_dimension |-> Dim,
     faiss_index_size |-> Len(index.vecs),
     articles_by_year |->
        [y \in YearsOf(df) |-> Cardinality({i \in 1..Len(df) : df[i].year = y})],
     has_abstract_count |->
        Cardinality({i \in 1..Len(df) : Populated(df[i].abstract)})]

(* The places where an indexing run can raise or be killed: in              *)
(* model.encode, in lines 110-117 of create_faiss_index, and between        *)
(* faiss.write_index and pickle.dump.                                       *)
FailPoints == {"none", "encode", "build_index", "between_writes"}

Reached(failAt, step) ==
    LET order == <<"encode", "build_index", "between_writes", "none">>
        pos(x) == CHOOSE i \in 1..Len(order) : order[i] = x
    IN pos(failAt) > pos(step)

NewIndexer == [status |-> "new", failedAt |-> "none", faiss_index |-> None,
               article_ids |-> <<>>, wrote |-> {}, rebuilt |-> FALSE]

(* process_complete_indexing: every step up to failAt takes effect; the     *)
(* except clause turns a failure into the result False (status "failed").   *)
(* pd.Timestamp.now() of a later run is later: the run number stands for it. *)
(* ix.rebuilt records (history only) that this run and the run before it    *)
(* both succeeded over the same rows.                                       *)
process_complete_indexing(failAt) ==
    /\ BatchPhase
    /\ builds < MaxBuilds
    /\ builds' = builds + 1
    /\ LET df == load_articles_from_database
           now == builds + 1
           embeddings == Embeddings(df)
           index == NewFaissIndex(embeddings)
           ids == ArticleIds(df)
           did(step) == Len(df) > 0 /\ Reached(failAt, step)
           done == Len(df) > 0 /\ failAt = "none"
       IN /\ disk' =
                [emb |-> IF did("encode")
                         THEN [exists |-> TRUE, vecs |-> embeddings] ELSE disk.emb,
                 faiss |-> IF did("build_index") THEN FaissFile(index) ELSE disk.faiss,
                 meta |-> IF did("between_writes")
                          THEN MetadataFile(ids, index) ELSE disk.meta,
                 chroma |-> IF done
                            THEN [exists |-> TRUE, ids |-> ids] ELSE disk.chroma,
                 report |-> IF done THEN Report(df, index, now) ELSE disk.report]
          /\ ix' =
                [status |-> IF Len(df) = 0 THEN "empty"
                            ELSE IF failAt = "none" THEN "ok" ELSE "failed",
                 failedAt |-> IF Len(df) = 0 THEN "none" ELSE failAt,
                 faiss_index |-> IF did("build_index") THEN index ELSE None,
                 article_ids |-> IF did("build_index") THEN ids ELSE <<>>,
                 wrote |-> {f \in {"emb", "faiss", "meta", "chroma", "report"} :
                              \/ f = "emb" /\ did("encode")
                              \/ f = "faiss" /\ did("build_index")
                              \/ f = "meta" /\ did("between_writes")
                              \/ f = "chroma" /\ done
                              \/ f = "report" /\ done},
                 rebuilt |-> done /\ ix.status = "ok" /\ ix.article_ids = ids]
    /\ UNCHANGED <<ex, articles, seq, authors, article_authors, imports, cb, out>>

----------------------------------------------------------------------------
(* chatbot_interface.py *)

NaN == {Null}

(* load_articles_data: the article rows, each with the list of the names of *)
(* its authors (NaN when the left merge finds none).                        *)
AuthorsOf(id) ==
    LET names == {authors[l[2]] : l \in {x \in article_authors : x[1] = id}}
    IN IF names = {} THEN NaN ELSE names

load_articles_data ==
    {[id |-> r.id, arxiv_id |-> r.arxiv_id, title |-> r.title, abstract |-> r.abstract,
      categories |-> r.categories, year |-> r.year, authors |-> AuthorsOf(r.id)]
        : r \in articles}

(* Variant: only the index file is looked for. *)
load_faiss_index_IndexFileOnly(readError) ==
    IF disk.faiss.exists /\ ~readError
    THEN [index |-> [d |-> disk.faiss.d, vecs |-> disk.faiss.vecs],
          article_ids |-> IF disk.meta.exists THEN disk.meta.article_ids ELSE <<>>]
    ELSE [index |-> None, article_ids |-> <<>>]

(* load_faiss_index: both files, when both exist and can be read. *)
load_faiss_index(readError) ==
    IF disk.faiss.exists /\ disk.meta.exists /\ ~readError
    THEN [index |-> [d |-> disk.faiss.d, vecs |-> disk.faiss.vecs],
          article_ids |-> disk.meta.article_ids]
    ELSE [index |-> None, article_ids |-> <<>>]

(* The orders in which a FAISS build can return neighbours of equal score. *)
TieOrders == {"ascending", "descending"}

(* ArxivChatbot() in a new server process: the cached resources are loaded  *)
(* once; without an index the script stops.  tie is the order in which the  *)
(* FAISS library of this process returns equal scores.                      *)
setup_chatbot(readError, tie) ==
    /\ BatchPhase
    /\ LET loaded == load_faiss_index(readError)
       IN cb' = [state |-> IF loaded.index = None THEN "stopped" ELSE "serving",
                 faiss_index |-> loaded.index,
                 article_ids |-> loaded.article_ids,
                 articles_df |-> load_articles_data,
                 tie |-> tie]
    /\ UNCHANGED <<ex, articles, seq, authors, article_authors, imports, builds, disk, ix,
                   out>>

(* Score FAISS reports for a missing neighbour. *)
FLT_LOWEST == 0 - (1000 * ScoreOne)

(* IndexFlatIP.search(q, k): k pairs, best inner product first; equal       *)
(* scores come in the order of the library build (tie); the places beyond   *)
(* ntotal hold the label -1.                                                *)
RECURSIVE Ranked(_, _, _)
Ranked(score, slots, tie) ==
    IF slots = {} THEN <<>>
    ELSE LET best == CHOOSE s \in slots : \A t \in slots \ {s} :
                        \/ score[s + 1] > score[t + 1]
                        \/ /\ score[s + 1] = score[t + 1]
                           /\ IF tie = "ascending" THEN s < t ELSE s > t
         IN <<[slot |-> best, score |-> score[best + 1]]>>
                \o Ranked(score, slots \ {best}, tie)

FaissSearch(index, q, k, tie) ==
    LET n == Len(index.vecs)
        score == TupleOf([s \in 1..n |-> Dot(index.vecs[s], q)], n)
        ranked == Ranked(score, 0..(n - 1), tie)
    IN TupleOf([i \in 1..k |->
                  IF i <= n THEN ranked[i] ELSE [slot |-> -1, score |-> FLT_LOWEST]], k)

(* article_ids[idx] of Python: a negative idx counts from the end. *)
PyIndexOK(ids, idx) == idx >= 0 - Len(ids) /\ idx < Len(ids)
PyIndex(ids, idx) == IF idx >= 0 THEN ids[idx + 1] ELSE ids[Len(ids) + idx + 1]

(* Variant: the loop ends at the first hit without a row. *)
RECURSIVE ResolveHitsUntilMiss(_, _, _, _, _)
ResolveHitsUntilMiss(hits, ids, df, i, acc) ==
    IF i > Len(hits) THEN [error |-> "none", results |-> acc]
    ELSE LET idx == hits[i].slot IN
         IF ~(idx < Len(ids)) THEN ResolveHitsUntilMiss(hits, ids, df, i + 1, acc)
         ELSE IF ~PyIndexOK(ids, idx) THEN [error |-> "recherche", results |-> <<>>]
         ELSE LET row == {r \in df : r.id = PyIndex(ids, idx)} IN
              IF row = {} THEN [error |-> "none", results |-> acc]
              ELSE ResolveHitsUntilMiss(hits, ids, df, i + 1,
                      Append(acc, [score |-> hits[i].score,
                                   article |-> CHOOSE r \in row : TRUE]))

(* The result loop of semantic_search over the hits i.. *)
RECURSIVE ResolveHits(_, _, _, _, _)
ResolveHits(hits, ids, df, i, acc) ==
    IF i > Len(hits) THEN [error |-> "none", results |-> acc]
    ELSE LET idx == hits[i].slot IN
         IF ~(idx < Len(ids)) THEN ResolveHits(hits, ids, df, i + 1, acc)
         ELSE IF ~PyIndexOK(ids, idx) THEN [error |-> "recherche", results |-> <<>>]
         ELSE LET row == {r \in df : r.id = PyIndex(ids, idx)} IN
              IF row = {} THEN ResolveHits(hits, ids, df, i + 1, acc)
              ELSE ResolveHits(hits, ids, df, i + 1,
                      Append(acc, [score |-> hits[i].score,
                                   article |-> CHOOSE r \in row : TRUE]))

(* Variant: not query *)
BlankWithoutStrip(query) == query = <<>>

(* not query.strip() *)
Blank(query) == Strip(query) = <<>>

semantic_search(query, k, encodeFails) ==
    IF Blank(query)
    THEN [encoded |-> FALSE, searched |-> FALSE, hits |-> <<>>,
          error |-> "none", results |-> <<>>]
    ELSE IF encodeFails
    THEN [encoded |-> TRUE, searched |-> FALSE, hits |-> <<>>,
          error |-> "recherche", results |-> <<>>]
    ELSE LET query_emb == NormalizeL2(Encode(query))
             hits == FaissSearch(cb.faiss_index, query_emb, k, cb.tie)
             res == ResolveHits(hits, cb.article_ids, cb.articles_df, 1, <<>>)
         IN [encoded |-> TRUE, searched |-> TRUE, hits |-> hits,
             error |-> res.error, results |-> res.results]

(* The three list comprehensions of run_interface.  `x in NaN` raises. *)
Raises(results, f) ==
    /\ f.authors # {}
    /\ \E i \in 1..Len(results) :
           /\ f.years # {} => results[i].article.year \in f.years
           /\ results[i].article.authors = NaN

YearOK(r, f) == f.years = {} \/ r.article.year \in f.years
AuthorOK(r, f) == f.authors = {} \/ r.article.authors \cap f.authors # {}
CategoryOK(r, f) == f.categories = {} \/ r.article.categories \in f.categories

ApplyFilters(results, f) ==
    SelectSeq(results, LAMBDA r : YearOK(r, f) /\ AuthorOK(r, f) /\ CategoryOK(r, f))

(* k of the call semantic_search(query, k=10) of run_interface *)
K_UI == 10

(* The query texts and sidebar filters tried. *)
Queries == {<<>>, <<SP, SP>>, <<"ai">>, <<SP, "neg">>}

FilterSets ==
    {NoFilter,
     [years |-> {2021}, authors |-> {}, categories |-> {}],
     [years |-> {2020, 2022}, authors |-> {<<"ann">>}, categories |-> {<<"cs">>}]}

(* Variant: a query that failed drops the index of the process. *)
SemanticSearchDropsIndexOnError(query, k, encodeFails) ==
    /\ cb.state = "serving"
    /\ encodeFails => ~Blank(query)
    /\ LET r == semantic_search(query, k, encodeFails)
       IN /\ out' = [op |-> "search", query |-> query, k |-> k, filters |-> NoFilter,
                     encoded |-> r.encoded, searched |-> r.searched, hits |-> r.hits,
                     found |-> r.results, error |-> r.error, results |-> r.results]
          /\ cb' = IF r.error = "none" THEN cb
                   ELSE [cb EXCEPT !.faiss_index = [d |-> Dim, vecs |-> <<>>],
                                   !.article_ids = <<>>]
    /\ UNCHANGED <<ex, articles, seq, authors, article_authors, imports, builds,
                   disk, ix>>

(* A call semantic_search(query, k). *)
SemanticSearch(query, k, encodeFails) ==
    /\ cb.state = "serving"
    /\ encodeFails => ~Blank(query)
    /\ LET r == semantic_search(query, k, encodeFails)
       IN out' = [op |-> "search", query |-> query, k |-> k, filters |-> NoFilter,
                  encoded |-> r.encoded, searched |-> r.searched, hits |-> r.hits,
                  found |-> r.results, error |-> r.error, results |-> r.results]
    /\ UNCHANGED <<ex, articles, seq, authors, article_authors, imports, builds,
                   disk, ix, cb>>

(* One press of the search button in run_interface, with the sidebar        *)
(* filters f; `if search_button and query` skips the empty text.            *)
RunInterface(query, f, encodeFails) ==
    /\ cb.state = "serving"
    /\ encodeFails => ~Blank(query)
    /\ IF query = <<>>
       THEN out' = [NoQuery EXCEPT !.op = "interface", !.filters = f]
       ELSE LET r == semantic_search(query, K_UI, encodeFails)
                raised == Raises(r.results, f)
            IN out' = [op |-> "interface", query |-> query, k |-> K_UI, filters |-> f,
                       encoded |-> r.encoded, searched |-> r.searched, hits |-> r.hits,
                       found |-> r.results,
                       error |-> IF raised THEN "interface" ELSE r.error,
                       results |-> IF raised THEN <<>> ELSE ApplyFilters(r.results, f)]
    /\ UNCHANGED <<ex, articles, seq, authors, article_authors, imports, builds,
                   disk, ix, cb>>

----------------------------------------------------------------------------
(* prepare_text_for_embedding on its own: the rows it is tried on, and the  *)
(* call made for one row by the list comprehension of create_embeddings.    *)

TextRows ==
    [id : {1, 2},
     arxiv_id : {"A"},
     title : {Null, <<>>, <<"ai">>, <<"ai", SP, "bio">>},
     abstract : {Null, <<>>, <<"bio">>},
     categories : {Null, <<>>, <<"cs">>},
     year : {2020, 2021}]

PrepareText(row) ==
    /\ out' = [op |-> "prepare_text", row |-> row,
               text |-> prepare_text_for_embedding(row)]
    /\ UNCHANGED <<ex, articles, seq, authors, article_authors, imports, builds,
                   disk, ix, cb>>

NextText == \E row \in TextRows : PrepareText(row)

----------------------------------------------------------------------------
(* scopus_extractor.py *)

(* count of one batch: min(25, remaining) *)
BatchSize == 25

(* MassiveScopusExtractor(api_key): all_articles is kept as its length;     *)
(* query_base is len(all_articles) when the current query began, and        *)
(* batches the number of batch requests of the query, modulo 2 (history     *)
(* only: the number itself has no bound in a loop that does not end).       *)
NewExtractor ==
    [pc |-> "idle", queries_left |-> 0, max_articles_per_query |-> 0,
     server |-> None, max_to_extract |-> 0, extracted_for_query |-> 0,
     start |-> 0, all_articles |-> 0, query_base |-> 0, batches |-> 0]

(* What the search API (external) holds for a query: total entries at the   *)
(* positions 0..total-1, those at the positions untitled without a          *)
(* dc:title, and its answer to a start at or past the end: no entry, or the *)
(* single entry {"error": "Result set was empty"}.                          *)
PastEndModes == {"empty", "error_entry"}

ResultSets ==
    [total : {0, 1, 3, 26, 60}, untitled : SUBSET {0, 25}, past_end : PastEndModes]

MaxArticlesChoices == {1, 2, 50}

(* The entries of the answer to search_articles_batch(query, start, count): *)
(* how many there are and how many of them have a title.                    *)
PageOf(rs, start, count) ==
    IF start >= rs.total
    THEN [entries |-> IF rs.past_end = "empty" THEN 0 ELSE 1, titled |-> 0]
    ELSE LET last == Min(start + count, rs.total) - 1
         IN [entries |-> last - start + 1,
             titled |-> Cardinality({i \in start..last : i \notin rs.untitled})]

(* The end of one iteration of `for i, query in enumerate(queries, 1)`. *)
NextQuery(e) ==
    [e EXCEPT !.queries_left = e.queries_left - 1,
              !.pc = IF e.queries_left - 1 = 0 THEN "done" ELSE "query"]

(* The call massive_extraction(queries, max_articles_per_query). *)
massive_extraction(nq, maxPerQuery) ==
    /\ ex.pc = "idle"
    /\ ex' = [ex EXCEPT !.pc = "query", !.queries_left = nq,
                        !.max_articles_per_query = maxPerQuery]
    /\ UNCHANGED <<articles, seq, authors, article_authors, imports, builds,
                   disk, ix, cb, out>>

(* Lines 125-140: the first request of a query, which gives totalResults;   *)
(* a failed request goes on to the next query.                              *)
InitialRequest(rs, fails) ==
    /\ ex.pc = "query"
    /\ ex' = IF fails THEN NextQuery(ex)
             ELSE LET max_to_extract == Min(rs.total, ex.max_articles_per_query)
                      e == [ex EXCEPT !.server = rs,
                                      !.max_to_extract = max_to_extract,
                                      !.extracted_for_query = 0,
                                      !.start = 0,
                                      !.batches = 0,
                                      !.query_base = ex.all_articles]
                  IN IF 0 < max_to_extract THEN [e EXCEPT !.pc = "loop"]
                     ELSE NextQuery(e)
    /\ UNCHANGED <<articles, seq, authors, article_authors, imports, builds,
                   disk, ix, cb, out>>

(* Lines 142-172: one iteration of the while loop, up to its next test.     *)
(* Every start at or past the end of the result set is answered alike, so   *)
(* start is kept up to the end of the result set.                           *)
WhileBody(fails) ==
    /\ ex.pc = "loop"
    /\ LET remaining == ex.max_to_extract - ex.extracted_for_query
           count == Min(BatchSize, remaining)
           page == PageOf(ex.server, ex.start, count)
       IN ex' = IF fails \/ page.entries = 0 THEN NextQuery(ex)
                ELSE LET e == [ex EXCEPT
                                !.batches = (ex.batches + 1) % 2,
                                !.all_articles = ex.all_articles + page.titled,
                                !.extracted_for_query =
                                    ex.extracted_for_query + page.titled,
                                !.start = Min(ex.start + count, ex.server.total)]
                     IN IF e.extracted_for_query < e.max_to_extract THEN e
                        ELSE NextQuery(e)
    /\ UNCHANGED <<articles, seq, authors, article_authors, imports, builds,
                   disk, ix, cb, out>>

NextExtract ==
    \/ \E nq \in 1..MaxQueries, maxPerQuery \in MaxArticlesChoices :
          massive_extraction(nq, maxPerQuery)
    \/ \E rs \in ResultSets, fails \in BOOLEAN : InitialRequest(rs, fails)
    \/ \E fails \in BOOLEAN : WhileBody(fails)

----------------------------------------------------------------------------

Init ==
    /\ articles = {}
    /\ seq = 0
    /\ authors = <<>>
    /\ article_authors = {}
    /\ imports = 0
    /\ builds = 0
    /\ disk = [emb |-> NoFile, faiss |-> NoFile, meta |-> NoFile, chroma |-> NoFile,
               report |-> NoFile]
    /\ ix = NewIndexer
    /\ cb = [state |-> "down", faiss_index |-> None, article_ids |-> <<>>,
             articles_df |-> {}, tie |-> "ascending"]
    /\ out = NoQuery
    /\ ex = NewExtractor

Next ==
    \/ \E df \in JsonFiles : process_complete_pipeline(df)
    \/ \E failAt \in FailPoints : process_complete_indexing(failAt)
    \/ \E readError \in BOOLEAN, tie \in TieOrders : setup_chatbot(readError, tie)
    \/ \E query \in Queries, k \in 1..MaxK, encodeFails \in BOOLEAN :
          SemanticSearch(query, k, encodeFails)
    \/ \E query \in Queries, f \in FilterSets, encodeFails \in BOOLEAN :
          RunInterface(query, f, encodeFails)

Spec == Init /\ [][Next]_vars

SpecText == Init /\ [][NextText]_vars

(* The extraction program runs on: a step that can be taken is taken. *)
SpecExtract == Init /\ [][NextExtract]_vars /\ WF_vars(NextExtract)

----------------------------------------------------------------------------
(* Properties. *)

Size == Len(cb.faiss_index.vecs)
Handled == out.op \in {"search", "interface"}

(* The hits of the last search, as the result loop sees them. *)
Mapped(i) == out.hits[i].slot < Len(cb.article_ids)
IdOf(i) == PyIndex(cb.article_ids, out.hits[i].slot)
Stale(i) == Mapped(i) /\ IdOf(i) \notin {r.id : r \in cb.articles_df}
Kept == {i \in 1..Len(out.hits) : Mapped(i) /\ ~Stale(i)}

(* C1: after a run in which create_faiss_index succeeded, the index in      *)
(* memory, the list article_ids, the count in the persisted index file and  *)
(* the persisted id list all have the same length.                          *)
C1_BuildCountsAgree ==
    "meta" \in ix.wrote =>
        /\ Len(ix.faiss_index.vecs) = Len(ix.article_ids)
        /\ disk.faiss.ntotal = Len(ix.article_ids)
        /\ Len(disk.meta.article_ids) = disk.faiss.ntotal

C1_Witness ==
    /\ "meta" \in ix.wrote
    /\ Len(ix.article_ids) >= 3
    /\ \E i \in 1..Len(disk.emb.vecs) : disk.emb.vecs[i] = Vec(0, 0)

(* C2: whatever happened to the indexing runs, an index file and a          *)
(* correlation file found on disk together have the same length.            *)
C2_PersistenceAtomic ==
    (disk.faiss.exists /\ disk.meta.exists) =>
        disk.faiss.ntotal = Len(disk.meta.article_ids)

(* C3: a run that failed before the persistence step (in the encoder or in  *)
(* building the vector store and the id list) wrote no file.                *)
C3_EarlyFailureWritesNothing ==
    (ix.status = "failed" /\ ix.failedAt \in {"encode", "build_index"}) =>
        ix.wrote = {}

(* C4: a search that returned a slot outside the bounds of the correlation  *)
(* map made the query fail with IndexCorruption.                            *)
C4_OutOfBoundsSlotFails ==
    (out.searched /\ \E i \in 1..Len(out.hits) :
        out.hits[i].slot \notin 0..(Len(cb.article_ids) - 1)) =>
        out.error = "IndexCorruption"

(* C5: when a returned slot refers to a document id without a row, the      *)
(* query raises no error and returns the other hits, one result per hit,    *)
(* with the score and the document of the hit, in the order of the search.  *)
C5_StaleHitDropped ==
    (out.searched /\ \E i \in 1..Len(out.hits) : Stale(i)) =>
        /\ out.error # "recherche"
        /\ Len(out.found) = Cardinality(Kept)
        /\ \A i \in Kept :
              LET j == Cardinality({m \in Kept : m <= i})
              IN /\ out.found[j].score = out.hits[i].score
                 /\ out.found[j].article.id = IdOf(i)

C5_Witness ==
    /\ out.searched
    /\ \E i \in 1..Len(out.hits) :
          /\ Stale(i)
          /\ \E j \in Kept : j < i
          /\ \E m \in Kept : m > i

(* C6: a query text that is empty or made of blanks only returns the empty  *)
(* list without an error, and neither the encoder nor the search is called. *)
C6_BlankQueryEmpty ==
    (Handled /\ \A i \in 1..Len(out.query) : out.query[i] = SP) =>
        /\ out.results = <<>>
        /\ out.error = "none"
        /\ ~out.encoded
        /\ ~out.searched

C6_Witness ==
    /\ out.op = "search"
    /\ Len(out.query) > 0
    /\ \A i \in 1..Len(out.query) : out.query[i] = SP

(* C7: the vector search returns exactly min(k, size) pairs, best score     *)
(* first and equal scores by ascending slot; on the toy index A=[1,0],      *)
(* B=[0,1], C=[0,0] the query [1,0] with k=3 gives A (1.0), B (0.0), C (0.0).*)
C7_SearchTopK ==
    out.searched =>
        /\ Len(out.hits) = Min(out.k, Size)
        /\ \A i, j \in 1..Len(out.hits) : i < j =>
              \/ out.hits[i].score > out.hits[j].score
              \/ /\ out.hits[i].score = out.hits[j].score
                 /\ out.hits[i].slot < out.hits[j].slot
        /\ (/\ cb.faiss_index.vecs = <<Vec(Scale, 0), Vec(0, Scale), Vec(0, 0)>>
            /\ NormalizeL2(Encode(out.query)) = Vec(Scale, 0)
            /\ out.k = 3)
            => out.hits = <<[slot |-> 0, score |-> ScoreOne],
                            [slot |-> 1, score |-> 0],
                            [slot |-> 2, score |-> 0]>>

(* C8 as stated: a non-blank query with k <= size that reached the search   *)
(* returns exactly k results with strictly descending scores, each in       *)
(* [-1, 1].                                                                 *)
C8_ExactlyKStrictlyDescending ==
    (out.searched /\ ~Blank(out.query) /\ out.k <= Size) =>
        /\ Len(out.found) = out.k
        /\ \A i \in 1..(Len(out.found) - 1) :
              out.found[i].score > out.found[i + 1].score
        /\ \A i \in 1..Len(out.found) :
              out.found[i].score \in (0 - ScoreOne)..ScoreOne

(* C8 amended: a non-blank query with k <= size returns at most k results,  *)
(* exactly k when the encoder did not fail and every returned slot has a    *)
(* row, with scores that never increase, each in [-1, 1].                   *)
C8_AtMostKDescending ==
    (Handled /\ ~Blank(out.query) /\ out.query # <<>> /\ out.k <= Size) =>
        /\ Len(out.found) <= out.k
        /\ (out.searched /\ Kept = 1..Len(out.hits)) => Len(out.found) = out.k
        /\ \A i \in 1..(Len(out.found) - 1) :
              out.found[i].score >= out.found[i + 1].score
        /\ \A i \in 1..Len(out.found) :
              out.found[i].score \in (0 - ScoreOne)..ScoreOne

C8_Witness ==
    /\ out.op = "search"
    /\ out.searched
    /\ out.k <= Size
    /\ out.k >= 2
    /\ Len(out.found) = out.k
    /\ out.found[1].score = out.found[2].score

(* C9: with the five documents of years 2020, 2021, 2020, 2022, 2021        *)
(* indexed, the search of the interface with the year filter {2021}         *)
(* returns the two documents of 2021, each once.                            *)
FiveYearIndex ==
    /\ Len(cb.article_ids) = 5
    /\ Size = 5
    /\ \A s \in 1..5 : \E r \in cb.articles_df :
          r.id = cb.article_ids[s] /\ r.year = FiveYears[s]

C9_YearFilterExact ==
    (/\ out.op = "interface"
     /\ out.searched
     /\ out.error = "none"
     /\ FiveYearIndex
     /\ out.filters = [years |-> {2021}, authors |-> {}, categories |-> {}]) =>
        /\ Len(out.results) = 2
        /\ {out.results[i].article.id : i \in 1..Len(out.results)}
              = {cb.article_ids[2], cb.article_ids[5]}

(* C10: the chatbot serves queries only with a correlation list as long as  *)
(* the vector store it loaded, and of the same dimension.                   *)
C10_LoadValidated ==
    cb.state = "serving" =>
        /\ Len(cb.article_ids) = Size
        /\ disk.meta.dimension = cb.faiss_index.d

(* C11: a server process that found the index file or the correlation file  *)
(* absent at its start stopped, and no query was handled in that run.       *)
C11_AbsentFilesNeverServe ==
    (cb.state # "down" /\ ~(disk.faiss.exists /\ disk.meta.exists)) =>
        /\ cb.state = "stopped"
        /\ out.op = "none"

C11_Witness ==
    /\ cb.state = "stopped"
    /\ disk.faiss.exists
    /\ ~disk.meta.exists

(* The answer the recorded query gets from the process as it is now. *)
AnswerNow ==
    semantic_search(out.query, out.k, out.encoded /\ ~out.searched).results

(* C12: whatever queries a serving process has handled (answered, empty or  *)
(* failed), its index, correlation list and article table are still the     *)
(* ones it loaded at its start, and the last query would get the same       *)
(* answer again.                                                            *)
C12_QueriesLeaveIndexUnchanged ==
    cb.state = "serving" =>
        /\ cb.faiss_index = load_faiss_index(FALSE).index
        /\ cb.article_ids = load_faiss_index(FALSE).article_ids
        /\ cb.articles_df = load_articles_data
        /\ Handled => out.found = AnswerNow

C12_Witness ==
    /\ cb.state = "serving"
    /\ out.op = "search"
    /\ out.error = "recherche"
    /\ Size >= 3

(* A successful indexing run over the rows the last successful run indexed: *)
(* ids are never reused and a row is never changed under its id, so equal   *)
(* id lists mean the same document set.                                     *)
RebuildOfSameDocuments ==
    /\ builds' = builds + 1
    /\ ix.status = "ok"
    /\ ix'.status = "ok"
    /\ ix.article_ids = ArticleIds(load_articles_from_database)

Present(x) == x \notin {Null, <<>>}

AddSegment(text, label, x) ==
    IF ~Present(x) THEN text
    ELSE IF text = <<>> THEN <<label, SP>> \o x
    ELSE text \o <<SP, label, SP>> \o x

LabelledText(t, a, c) ==
    AddSegment(AddSegment(AddSegment(<<>>, "Title:", t), "Abstract:", a),
               "Categories:", c)

(* C14: the text of a row is the labelled segments of its populated fields  *)
(* among title, abstract and categories, in that order, joined by single    *)
(* blanks; it is empty when none is populated; rows that agree on the three *)
(* fields have the same text.                                               *)
C14_TextNormalization ==
    out.op = "prepare_text" =>
        /\ out.text = LabelledText(out.row.title, out.row.abstract, out.row.categories)
        /\ (\A x \in {out.row.title, out.row.abstract, out.row.categories} :
                ~Present(x)) => out.text = <<>>
        /\ \A other \in TextRows :
              (/\ other.title = out.row.title
               /\ other.abstract = out.row.abstract
               /\ other.categories = out.row.categories)
                 => prepare_text_for_embedding(other) = out.text

C14_Witness ==
    /\ out.op = "prepare_text"
    /\ out.row.title = <<>>
    /\ out.row.abstract = <<"bio">>
    /\ out.row.categories = <<"cs">>
    /\ out.text = <<"Abstract:", SP, "bio", SP, "Categories:", SP, "cs">>

(* C15: after create_faiss_index, the ids of the slots ascend, every row    *)
(* that existed at the build (ids only grow) has a slot, also a row of      *)
(* empty text, and the vector of a slot is the normalized encoding of the   *)
(* text of the row of that slot.                                            *)
C15_SlotsAligned ==
    ix.faiss_index # None =>
        LET ids == ix.article_ids
            vecs == ix.faiss_index.vecs
        IN /\ Len(vecs) = Len(ids)
           /\ Len(disk.emb.vecs) = Len(ids)
           /\ \A i \in 1..(Len(ids) - 1) : ids[i] < ids[i + 1]
           /\ \A r \in articles : r.id <= ids[Len(ids)] => \E i \in 1..Len(ids) : ids[i] = r.id
           /\ \A i \in 1..Len(ids) : \A r \in articles : r.id = ids[i] =>
                 /\ disk.emb.vecs[i] = Encode(prepare_text_for_embedding(r))
                 /\ vecs[i] = NormalizeL2(Encode(prepare_text_for_embedding(r)))

C15_Witness ==
    /\ ix.status = "ok"
    /\ ix.article_ids[1] > 1
    /\ \E i \in 1..(Len(ix.article_ids) - 1) : \E r \in articles :
          /\ r.id = ix.article_ids[i]
          /\ prepare_text_for_embedding(r) = <<>>
          /\ ix.faiss_index.vecs[i] = Vec(0, 0)
          /\ ix.faiss_index.vecs[i + 1] # Vec(0, 0)

(* C16: a search for k results asks the vector store for                    *)
(* min(size, k * OVERFETCH) candidates, OVERFETCH > 1 (every OVERFETCH      *)
(* above size asks for size), and so for more than k when size > k.         *)
C16_Overfetch ==
    out.searched =>
        /\ \E OVERFETCH \in 2..(Size + 1) :
              Len(out.hits) = Min(Size, out.k * OVERFETCH)
        /\ Size > out.k => Len(out.hits) > out.k

(* The filters of C17: a result passes when it satisfies each filter that   *)
(* has a selection.                                                         *)
Satisfies(r, f) ==
    /\ f.years # {} => r.article.year \in f.years
    /\ f.authors # {} =>
          r.article.authors # NaN /\ \E a \in f.authors : a \in r.article.authors
    /\ f.categories # {} => r.article.categories \in f.categories

(* C17: the list shown by the interface is the list found by the search     *)
(* without the results that fail a filter, in the same order, of at most k  *)
(* results, and filtering raises no error.                                  *)
C17_FiltersExact ==
    (out.op = "interface" /\ out.searched) =>
        /\ out.error # "interface"
        /\ out.results = SelectSeq(out.found, LAMBDA r : Satisfies(r, out.filters))
        /\ Len(out.results) <= out.k

(* C18: a search returns at most min(k, size) results, each from a slot of  *)
(* the correlation list of its own, no article twice, and none from the     *)
(* label -1.                                                                *)
C18_NoSentinelResults ==
    out.searched =>
        /\ Len(out.found) <= Min(out.k, Size)
        /\ \A i \in Kept : out.hits[i].slot \in 0..(Len(cb.article_ids) - 1)
        /\ \A i, j \in 1..Len(out.found) :
              out.found[i].article.id = out.found[j].article.id => i = j

(* C19: a run of process_complete_pipeline leaves every stored arxiv_id     *)
(* with the id it had, and afterwards every article_authors row has its     *)
(* article in the table articles.                                           *)
C19_IdsKeptAndLinksValid ==
    [][/\ \A r \in articles : \A q \in articles' :
             q.arxiv_id = r.arxiv_id => q.id = r.id
       /\ \A l \in article_authors' : \E q \in articles' : q.id = l[1]]_vars

(* C20: the table authors has one row at most for a preferred_name, and an  *)
(* article is linked to an author name by one row at most.                  *)
C20_AuthorsUnique ==
    /\ \A i, j \in 1..Len(authors) : authors[i] = authors[j] => i = j
    /\ \A l, m \in article_authors :
          (l[1] = m[1] /\ authors[l[2]] = authors[m[2]]) => l = m

(* C21: the while loop of a query of massive_extraction ends, and a query   *)
(* appends at most max_articles_per_query articles, also when a batch that  *)
(* is not empty holds only entries without a title.                         *)
C21_ExtractionLoopEnds ==
    /\ [](ex.all_articles - ex.query_base <= ex.max_articles_per_query)
    /\ (ex.pc = "loop") ~> (ex.pc # "loop")

====
